---- MODULE Spec2Model ----
(***************************************************************************)
(* A model of src/src/gpu/dpcpp_ccl.cpp: the XPU backend of the oneCCL     *)
(* process group.  One process of a group of GrpSize processes is          *)
(* modelled; its local threads issue collectives through the entry points  *)
(* of XPUCCLStubs and wait on the works they get back.                     *)
(*                                                                         *)
(* Interleaving points are the places where threads can observe each       *)
(* other: the communicator cache (get_comms / add_comms), the global mutex *)
(* around the library call, and the device event of a work.                *)
(***************************************************************************)
EXTENDS Integers, Sequences, FiniteSets, TLC

\* ------------------------------------------------------------------ bounds
GrpSize == 2          \* pg.getSize(): number of processes of the group
MaxCalls == 2         \* entry-point invocations in a multi-threaded run
MaxCallsBase == 2     \* entry-point invocations in a single-call run
MaxDim0 == 4          \* largest first dimension of an alltoall_base tensor
MaxRow == 2           \* largest number of elements per first-dimension row
MaxList == 3          \* longest tensor list handed to check_tensors_properties
MaxBuf == 2           \* most elements of one buffer of alltoall or gather
MaxSplit == 3         \* largest entry of a split-size list of alltoall_base

\* The local threads issuing collectives: two, so that any two calls can race.
Threads == {1, 2}
Ranks == 0..(GrpSize - 1)

VARIABLES
  mode,        \* "mt": threads race, small inputs; "base": one thread, wide inputs;
               \* "pure": a helper is applied to an argument, nothing else runs
  rank,        \* pg.getRank() of the modelled process
  pc,          \* per thread: its position in the entry point or in wait()
  req,         \* per thread: the arguments of its current (or last) call
  seen,        \* per thread: the cache entry of its key when the call began
  did,         \* per thread: what its call to get_ccl_comms has touched
  comms,       \* per thread: the bundle get_ccl_comms resolved (Comms&)
  work,        \* per thread: the work it executes or waits on
  result,      \* per thread: how its last operation ended
  cache,       \* ccl_member_: devices_key -> bundle (0: no entry)
  bundles,     \* every Comms constructed so far, by bundle id
  globalMutex, \* ProcessGroupCCL::globalMutex: 0 or the thread holding it
  works,       \* every AsyncWorkCCL created so far, by work id
  queue,       \* per device: the operations enqueued and not yet complete, oldest first
  ncalls,      \* entry-point invocations so far
  steps,       \* per thread: what the lambda it is running has done so far
  arg,         \* the argument of a helper applied on its own ("pure" runs)
  out          \* what the helper returned or threw

vars == <<mode, rank, pc, req, seen, did, comms, work, result, cache, bundles,
          globalMutex, works, queue, ncalls, steps, arg, out>>

\* ------------------------------------------------------------------ values
Devices == {0, 1}
DevLists == {<<>>, <<0>>, <<1>>, <<0, 1>>}
Keys == DevLists \cup {<<0, 0>>}

Ops == {"allreduce", "reduce", "broadcast", "allgather", "gather",
        "alltoall", "alltoall_base"}

NoReq == [op |-> "none", devs |-> <<>>, a |-> <<>>]
NoResult == [kind |-> "none", err |-> "none"]

Tensor(d, r, ty) == [dim0 |-> d, row |-> r, dtype |-> ty]
numel(t) == t.dim0 * t.row

\* A buffer as check_tensors_properties sees it.
Buffer(dv, dt, ty, sz, sp, co) ==
  [dev |-> dv, devtype |-> dt, dtype |-> ty, sizes |-> sz, sparse |-> sp, contig |-> co]

\* A plain buffer: on an XPU, float, two elements, dense, contiguous.
BaseBuffer(d) == Buffer(d, "xpu", "f32", <<2>>, FALSE, TRUE)

RECURSIVE SumSeq(_)
SumSeq(s) == IF s = <<>> THEN 0 ELSE Head(s) + SumSeq(Tail(s))

Active(t) == mode = "mt" \/ t = 1
CallLimit == IF mode = "mt" THEN MaxCalls ELSE MaxCallsBase

\* ---------------------------------------------------------------- requests
\* A request is one entry-point invocation: the operation, the devices of its
\* buffers (one per buffer) and the operation's own arguments.
Request(o, d, args) == [op |-> o, devs |-> d, a |-> args]

Same(n) == [i \in 1..GrpSize |-> Tensor(n, 1, "f32")]
Ones == [i \in 1..GrpSize |-> 1]
Twos == [i \in 1..GrpSize |-> 2]

AllreduceRequests ==
  {Request("allreduce", d, [t |-> Tensor(2, 1, "f32")]) : d \in DevLists}

ReduceRequests ==
  {Request("reduce", <<0>>, [t |-> Tensor(2, 1, "f32"), rootRank |-> 0, rootTensor |-> 0])}

BroadcastRequests ==
  {Request("broadcast", <<0>>, [t |-> Tensor(2, 1, "f32"), rootRank |-> 0, rootTensor |-> 0])}

\* reduce and broadcast on one buffer with every root rank of the group and a
\* root tensor index of 0 or 1.
ReduceRoots ==
  {Request("reduce", <<0>>, [t |-> Tensor(2, 1, "f32"), rootRank |-> rr, rootTensor |-> rt]) :
     rr \in Ranks, rt \in {0, 1}}

BroadcastRoots ==
  {Request("broadcast", <<0>>, [t |-> Tensor(2, 1, "f32"), rootRank |-> rr, rootTensor |-> rt]) :
     rr \in Ranks, rt \in {0, 1}}

\* Tensor lists of allreduce, reduce and broadcast that are not plain: one
\* sparse or non-contiguous buffer, two buffers of different type or shape,
\* two buffers on one device.
InvalidLists ==
  {<<[BaseBuffer(0) EXCEPT !.sparse = TRUE]>>,
   <<[BaseBuffer(0) EXCEPT !.contig = FALSE]>>,
   <<BaseBuffer(0), [BaseBuffer(1) EXCEPT !.dtype = "i32"]>>,
   <<BaseBuffer(0), [BaseBuffer(1) EXCEPT !.sizes = <<3>>]>>,
   <<BaseBuffer(0), BaseBuffer(0)>>}

\* get_device_list: the devices of the buffers, one per buffer.
DevsOf(bufs) == [i \in 1..Len(bufs) |-> bufs[i].dev]

AllreduceInvalid ==
  {Request("allreduce", DevsOf(b), [t |-> Tensor(2, 1, "f32"), bufs |-> b]) : b \in InvalidLists}

ReduceInvalid ==
  {Request("reduce", DevsOf(b),
           [t |-> Tensor(2, 1, "f32"), rootRank |-> 0, rootTensor |-> 0, bufs |-> b]) :
     b \in InvalidLists}

BroadcastInvalid ==
  {Request("broadcast", DevsOf(b),
           [t |-> Tensor(2, 1, "f32"), rootRank |-> 0, rootTensor |-> 0, bufs |-> b]) :
     b \in InvalidLists}

\* The tensor list of a request: plain buffers unless the request says otherwise.
BufsOf(r) ==
  IF "bufs" \in DOMAIN r.a THEN r.a.bufs
  ELSE [i \in 1..Len(r.devs) |-> BaseBuffer(r.devs[i])]

AllgatherRequests ==
  {Request("allgather", <<0>>, [inp |-> Tensor(n, 1, "f32"), outs |-> Same(2)]) : n \in {2, 3}}

\* outputTensors of gather: none, one list of GrpSize buffers (matching the
\* input's count or not), one list that is one buffer short, or two lists.
GatherOutputs ==
  {<<>>, <<Same(2)>>, <<Same(3)>>, <<Tail(Same(2))>>, <<Same(2), Same(2)>>}

GatherRequests ==
  {Request("gather", <<0>>, [inp |-> Tensor(2, 1, "f32"), rootRank |-> r, outs |-> o, flat |-> f]) :
     r \in Ranks, o \in GatherOutputs, f \in {FALSE}}
  \cup {Request("gather", <<0>>, [inp |-> Tensor(2, 1, "f32"), rootRank |-> r, outs |-> <<Same(2)>>, flat |-> TRUE]) :
     r \in Ranks}

AlltoallRequests ==
  {Request("alltoall", <<0>>, [ins |-> Same(2), outs |-> Same(2), flatIn |-> f, flatOut |-> f]) :
     f \in BOOLEAN}

\* alltoall_base in a multi-threaded run: the uniform path with a dim 0 that
\* divides across the group and one that does not, the split path with good
\* and with bad split sizes.
AlltoallBaseRequests ==
  {Request("alltoall_base", <<0>>,
           [inp |-> Tensor(n, 1, "f32"), out |-> Tensor(n, 1, "f32"), inSplit |-> s, outSplit |-> s]) :
     n \in {GrpSize, GrpSize + 1}, s \in {<<>>, Ones}}

\* alltoall_base with split sizes: lists that match dim 0, that do not sum to
\* it, and that are one entry short, each for the input and for the output.
OnesPlus == [Ones EXCEPT ![1] = 2]
Splits == {<<>>, Ones, OnesPlus, Tail(Ones)}

AlltoallBaseRagged ==
  {Request("alltoall_base", <<0>>,
           [inp |-> Tensor(n, 1, "f32"), out |-> Tensor(m, 1, "f32"), inSplit |-> si, outSplit |-> so]) :
     n \in {GrpSize, GrpSize + 1}, m \in {GrpSize, GrpSize + 1},
     si \in Splits, so \in Splits \ {<<>>}}

\* alltoall_base in a single-call run: every pair of tensors up to the bounds,
\* no split sizes.
Tensors == {Tensor(d, r, ty) : d \in 0..MaxDim0, r \in 1..MaxRow, ty \in {"f32", "i32"}}

AlltoallBaseWide ==
  {Request("alltoall_base", <<0>>, [inp |-> i, out |-> o, inSplit |-> <<>>, outSplit |-> <<>>]) :
     i \in Tensors, o \in {x \in Tensors : x.dtype = "f32"}}

\* Threads race on requests for device 0 that pass every check of
\* get_ccl_comms, of the entry points and of the lambdas; a single call draws
\* from all requests.
Passing ==
  {r \in AllreduceRequests : r.devs = <<0>>} \cup ReduceRequests \cup BroadcastRequests
  \cup {r \in AllgatherRequests : numel(r.a.inp) = 2}
  \cup {r \in GatherRequests :
          \/ r.a.rootRank = 0 /\ r.a.outs = <<Same(2)>> /\ ~r.a.flat
          \/ r.a.rootRank = 1 /\ r.a.outs = <<>>}
  \cup AlltoallRequests
  \cup {r \in AlltoallBaseRequests : r.a.inp.dim0 = GrpSize}

All ==
  AllreduceRequests \cup ReduceRequests \cup BroadcastRequests \cup AllgatherRequests
  \cup GatherRequests \cup AlltoallRequests \cup AlltoallBaseRequests \cup AlltoallBaseWide
  \cup AlltoallBaseRagged \cup AllreduceInvalid \cup ReduceInvalid \cup BroadcastInvalid
  \cup ReduceRoots \cup BroadcastRoots

RequestsOf(o) == {r \in (IF mode = "mt" THEN Passing ELSE All) : r.op = o}

\* ------------------------------------------------------------------ errors
Ok == "ok"
ErrEmptyDevices == "Not able to create/get the CCL Communicator since the devices are empty"
ErrOneDevice == "Torch CCL only support one device per process now"
ErrCreate == "create_communicators failed"
ErrLibrary == "CCL_CHECK: library call failed"
ErrTimeout == "wait: timeout"
ErrAllgatherCount == "allgather: send and recv count doesn't match"
ErrGatherNonRoot == "gather: number of output tensors should be 0 for non-root"
ErrGatherMulti == "gather: multi-GPU collective is not supported"
ErrGatherWorld == "gather: number of output tensors should equal to the world size"
ErrGatherCount == "gather: send and recv count doesn't match"
ErrBaseEqual == "alltoall_base: tensors are not equal in size or data type"
ErrBaseDivide == "alltoall_base: tensor's dim 0 does not divide equally across group size"
ErrSplitDivide == "Tensor's dim 0 does not divide equally across group size"
ErrSplitCount == "Number of tensor splits not equal to group size"
ErrSplitSum == "Split sizes doesn't match total dim 0 size"

\* Input-shape and configuration errors, as opposed to failures of the library.
ConfigErrors ==
  {ErrAllgatherCount, ErrGatherNonRoot, ErrGatherMulti, ErrGatherWorld, ErrGatherCount,
   ErrBaseEqual, ErrBaseDivide, ErrSplitDivide, ErrSplitCount, ErrSplitSum}

\* ------------------------------------------------- checks of the entry points
\* c10d::checkSplitSizes(split_sizes, tensor, group_size)
checkSplitSizes(split, t, grp) ==
  IF Len(split) = 0
    THEN (IF t.dim0 % grp = 0 THEN Ok ELSE ErrSplitDivide)
    ELSE IF Len(split) # grp THEN ErrSplitCount
    ELSE IF SumSeq(split) # t.dim0 THEN ErrSplitSum
    ELSE Ok

\* A variant of gather_check without the check against the world size.
gather_check_no_world(r, rk) ==
  IF rk # r.a.rootRank
    THEN (IF Len(r.a.outs) = 0 THEN Ok ELSE ErrGatherNonRoot)
    ELSE IF Len(r.a.outs) # 1 THEN ErrGatherMulti
    ELSE Ok

\* gather_: the TORCH_CHECKs on outputTensors made before collective<>().
gather_check(r, rk) ==
  IF rk # r.a.rootRank
    THEN (IF Len(r.a.outs) = 0 THEN Ok ELSE ErrGatherNonRoot)
    ELSE IF Len(r.a.outs) # 1 THEN ErrGatherMulti
    ELSE IF GrpSize # Len(r.a.outs[1]) THEN ErrGatherWorld
    ELSE Ok

\* alltoall_base_: the uniform path is taken when both split lists are empty.
IsUniform(r) == Len(r.a.outSplit) = 0 /\ Len(r.a.inSplit) = 0

\* A variant of alltoall_base_check without the divisibility check.
alltoall_base_check_no_divide(r) ==
  IF IsUniform(r) /\ ~(numel(r.a.out) = numel(r.a.inp) /\ r.a.out.dtype = r.a.inp.dtype)
    THEN ErrBaseEqual
    ELSE Ok

\* alltoall_base_: the TORCH_CHECKs of the uniform path, made before collective<>().
alltoall_base_check(r) ==
  IF IsUniform(r)
    THEN IF ~(numel(r.a.out) = numel(r.a.inp) /\ r.a.out.dtype = r.a.inp.dtype)
           THEN ErrBaseEqual
         ELSE IF r.a.out.dim0 % GrpSize # 0 THEN ErrBaseDivide
         ELSE Ok
    ELSE Ok

\* What an entry point checks itself before it calls collective<>().
EntryCheck(r, rk) ==
  CASE r.op = "gather" -> gather_check(r, rk)
    [] r.op = "alltoall_base" -> alltoall_base_check(r)
    [] OTHER -> Ok

\* ------------------------------------------------- the lambdas run by run()
\* allgather_: TORCH_CHECK(input.numel() == recvCounts[rank]) inside the lambda.
allgather_lambda_check(r, rk) ==
  IF numel(r.a.inp) = numel(r.a.outs[rk + 1]) THEN Ok ELSE ErrAllgatherCount

\* gather_: at the root, TORCH_CHECK(sendCounts[rank] == recvCounts[rank])
\* inside the lambda; outputs is outputTensors[0].
gather_lambda_check(r, rk) ==
  IF rk = r.a.rootRank
    THEN (IF numel(r.a.inp) = numel(r.a.outs[1][rk + 1]) THEN Ok ELSE ErrGatherCount)
    ELSE Ok

\* A variant of alltoall_base_lambda_check that checks the input split sizes only.
alltoall_base_lambda_check_input_only(r) ==
  IF IsUniform(r) THEN Ok ELSE checkSplitSizes(r.a.inSplit, r.a.inp, GrpSize)

\* alltoall_base_: the split path checks both split lists inside the lambda.
alltoall_base_lambda_check(r) ==
  IF IsUniform(r) THEN Ok
  ELSE IF checkSplitSizes(r.a.inSplit, r.a.inp, GrpSize) # Ok
    THEN checkSplitSizes(r.a.inSplit, r.a.inp, GrpSize)
  ELSE checkSplitSizes(r.a.outSplit, r.a.out, GrpSize)

\* What the lambda of an operation checks before it takes the global mutex.
LambdaCheck(r, rk) ==
  CASE r.op = "allgather" -> allgather_lambda_check(r, rk)
    [] r.op = "gather" -> gather_lambda_check(r, rk)
    [] r.op = "alltoall_base" -> alltoall_base_lambda_check(r)
    [] OTHER -> Ok

\* alltoall_base_, uniform path: the count handed to ccl::alltoall is
\* output.numel() / comm.size().
alltoall_base_count(r, commSize) == numel(r.a.out) \div commSize

\* A variant of alltoall_base_counts that divides by the group size whether or
\* not split sizes are given.
alltoall_base_counts_by_group(split, t) ==
  LET equal == Len(split) = 0
      len0 == numel(t)
      len == IF len0 # 0 THEN len0 \div GrpSize ELSE len0
  IN [i \in 1..GrpSize |-> IF equal THEN len ELSE split[i] * len]

\* alltoall_base_, split path: sendCounts and recvCounts handed to ccl::alltoallv.
alltoall_base_counts(split, t) ==
  LET equal == Len(split) = 0
      len0 == numel(t)
      len == IF len0 # 0 THEN len0 \div (IF equal THEN GrpSize ELSE t.dim0) ELSE len0
  IN [i \in 1..GrpSize |-> IF equal THEN len ELSE split[i] * len]

\* A variant of root that names the calling process instead of opts.rootRank.
root_of_caller(r) == rank * Len(r.devs) + r.a.rootTensor

\* reduce_, broadcast_: root = opts.rootRank * tensors.size() + opts.rootTensor.
root(r) == r.a.rootRank * Len(r.devs) + r.a.rootTensor

\* The arguments an operation's lambda hands to the library primitive.
LibArgs(r, rk, commSize) ==
  CASE r.op = "alltoall_base" /\ IsUniform(r) ->
         [prim |-> "alltoall", count |-> alltoall_base_count(r, commSize)]
    [] r.op = "alltoall_base" /\ ~IsUniform(r) ->
         [prim |-> "alltoallv",
          send |-> alltoall_base_counts(r.a.inSplit, r.a.inp),
          recv |-> alltoall_base_counts(r.a.outSplit, r.a.out)]
    [] r.op \in {"allgather"} -> [prim |-> "allgatherv"]
    [] r.op \in {"gather", "alltoall"} -> [prim |-> "alltoallv"]
    [] r.op \in {"reduce", "broadcast"} -> [prim |-> r.op, root |-> root(r)]
    [] OTHER -> [prim |-> r.op]

\* alltoall_ copies its input buffers into a new flat buffer before the library
\* call when they are not already flat; gather_ sends its one input as it is.
NeedsFlatten(r) == r.op = "alltoall" /\ ~r.a.flatIn

\* A variant of flatten_in that leaves the flat input buffer unfilled.
flatten_in_none(r) == <<>>

\* What the lambda has done when it reaches call_with_lock.
flatten_in(r) == IF NeedsFlatten(r) THEN <<"flatten">> ELSE <<>>

\* gather_ at the root and alltoall_ wait for the event inside the lambda and
\* copy the flat output back when the output buffers are not already flat.
NeedsCopyOut(r, rk) ==
  CASE r.op = "gather" -> rk = r.a.rootRank /\ ~r.a.flat
    [] r.op = "alltoall" -> ~r.a.flatOut
    [] OTHER -> FALSE

\* ------------------------------------------------------ communicator cache
\* The key of a device list: the ordered device indices themselves.
get_key_from_devs(devs) == devs

\* ccl_member_->get_comms(devices_key): the cached bundle, or 0 (null).
get_comms(c, key) == c[key]

\* ccl_member_->add_comms(devices_key, comms): stores the bundle under the key;
\* an entry that is already there stays.
add_comms(c, key, b) == IF c[key] = 0 THEN [c EXCEPT ![key] = b] ELSE c

\* int total_rank_size = pg_ccl.getSize() * devices.size();
total_rank_size(devs) == GrpSize * Len(devs)

\* A variant of local_base_rank that registers every process as rank 0.
local_base_rank_zero(rk, devs) == 0

\* int local_base_rank = pg_ccl.getRank() * devices.size();
local_base_rank(rk, devs) == rk * Len(devs)

\* The Comms built on a miss: the one registered rank and the total rank count.
Comms(key, devs) ==
  [key |-> key, rank |-> local_base_rank(rank, devs), size |-> total_rank_size(devs)]

\* A variant of get_ccl_comms_sanity without the one-device check.
get_ccl_comms_sanity_no_size(key, devs) ==
  IF key = <<>> THEN ErrEmptyDevices ELSE Ok

\* get_ccl_comms: the two sanity checks made before the cache is looked up.
get_ccl_comms_sanity(key, devs) ==
  IF key = <<>> THEN ErrEmptyDevices
  ELSE IF Len(devs) # 1 THEN ErrOneDevice
  ELSE Ok

\* A variant of get_ccl_comms_hit that never takes the cached bundle.
get_ccl_comms_hit_never(c, key) == FALSE

\* get_ccl_comms: if (cached_comms) return *cached_comms;
get_ccl_comms_hit(c, key) == get_comms(c, key) # 0

\* ------------------------------------------------------------------- works
NewWork(b) ==
  [comms |-> b, state |-> "Running", cause |-> "none",
   fin |-> 0, runs |-> 0, lib |-> "none", evt |-> "none"]

\* The device (queue) a work's operation is enqueued on: the bundle's one device.
DeviceOf(wk) == bundles[wk.comms].key[1]

\* AsyncWorkCCL::finishAsyncWorkCCL(): the success finish.
finishAsyncWorkCCL(ws, w) ==
  [ws EXCEPT ![w].state = "Completed", ![w].cause = "none", ![w].fin = @ + 1]

\* AsyncWorkCCL::finishAsyncWorkCCLError(eptr): the error finish.
finishAsyncWorkCCLError(ws, w, e) ==
  [ws EXCEPT ![w].state = "Failed", ![w].cause = e, ![w].fin = @ + 1]

\* A variant of execute whose catch block does not return: the error finish
\* is followed by the success finish.
execute_no_return(ws, w, e) ==
  IF e # Ok
    THEN [works |-> finishAsyncWorkCCL(finishAsyncWorkCCLError(ws, w, e), w), thrown |-> Ok]
    ELSE [works |-> finishAsyncWorkCCL(ws, w), thrown |-> Ok]

\* A variant of execute without the try block: the exception of run() escapes.
execute_rethrow(ws, w, e) ==
  IF e # Ok
    THEN [works |-> ws, thrown |-> e]
    ELSE [works |-> finishAsyncWorkCCL(ws, w), thrown |-> Ok]

\* execute(work) once run() has ended with e (Ok: it returned, otherwise the
\* exception it threw): the works afterwards and the exception execute lets
\* escape to the entry point (Ok: none).
execute(ws, w, e) ==
  IF e # Ok
    THEN [works |-> finishAsyncWorkCCLError(ws, w, e), thrown |-> Ok]
    ELSE [works |-> finishAsyncWorkCCL(ws, w), thrown |-> Ok]

\* A variant of execute_run that calls run() a second time.
execute_run_twice(ws, w) == [ws EXCEPT ![w].runs = @ + 2]

\* execute(work): work->run() is called once.
execute_run(ws, w) == [ws EXCEPT ![w].runs = @ + 1]

\* synchronizeInternal(timeout) has nothing left to wait for.
synchronizeInternal(wk) == wk.evt # "pending"

\* checkAndThrowException(): the captured exception, if any.
checkAndThrowException(wk) == IF wk.state = "Failed" THEN wk.cause ELSE Ok

\* How an operation ends for its caller: an entry point throws or returns the
\* work; wait throws or returns true.
Threw(e) == [kind |-> "threw", err |-> e]
Returned == [kind |-> "work", err |-> "none"]
WaitThrew(e) == [kind |-> "wait threw", err |-> e]
WaitTrue == [kind |-> "true", err |-> "none"]

\* The work is in its caller's hands: no thread is still inside its entry point.
Handed(w) ==
  \A u \in Threads : ~(work[u] = w /\ pc[u] \in {"lock", "ccl", "event_wait", "copy_out"})

\* ------------------------------------------------ check_tensors_properties
\* xpu::dpcpp::device_count()
device_count == Cardinality(Devices)

ErrNonEmpty == "Tensor list must be nonempty"
ErrTooMany == "Tensor list mustn't be larger than the number of available GPUs"
ErrDense == "Tensors must be dense"
ErrType == "Tensors must have identical type"
ErrSize == "Tensors must have identical size"
ErrContiguous == "Tensors must be contiguous"
ErrDeviceType == "Tensors must be on the same device type"
ErrDistinct == "Tensors must be on distinct devices"

\* A variant of check_tensors_loop that does not track the devices it has seen.
RECURSIVE check_tensors_loop_no_devices(_, _, _, _)
check_tensors_loop_no_devices(tensors, i, first, usedDevices) ==
  IF i > Len(tensors) THEN first.devtype
  ELSE LET t == tensors[i] IN
    IF t.sparse THEN ErrDense
    ELSE IF t.dtype # first.dtype THEN ErrType
    ELSE IF t.sizes # first.sizes THEN ErrSize
    ELSE IF ~t.contig THEN ErrContiguous
    ELSE IF first.devtype # t.devtype THEN ErrDeviceType
    ELSE check_tensors_loop_no_devices(tensors, i + 1, first, usedDevices)

\* The loop of check_tensors_properties from tensor i on: the checks of each
\* tensor in the order of the code, then the device type of the first.
RECURSIVE check_tensors_loop(_, _, _, _)
check_tensors_loop(tensors, i, first, usedDevices) ==
  IF i > Len(tensors) THEN first.devtype
  ELSE LET t == tensors[i] IN
    IF t.sparse THEN ErrDense
    ELSE IF t.dtype # first.dtype THEN ErrType
    ELSE IF t.sizes # first.sizes THEN ErrSize
    ELSE IF ~t.contig THEN ErrContiguous
    ELSE IF first.devtype # t.devtype THEN ErrDeviceType
    ELSE IF t.dev \in usedDevices THEN ErrDistinct
    ELSE check_tensors_loop(tensors, i + 1, first, usedDevices \cup {t.dev})

\* check_tensors_properties(tensors): the device type it returns, or the
\* message of the exception it throws.
check_tensors_properties(tensors) ==
  IF Len(tensors) = 0 THEN ErrNonEmpty
  ELSE IF Len(tensors) > device_count THEN ErrTooMany
  ELSE check_tensors_loop(tensors, 1, tensors[1], {})

\* ------------------------------------------- flat buffers of alltoall_, gather_
\* The contents of a buffer: its elements in order (tensor.view({-1})).
Values == {1, 2}
Uninit == 0

\* at::empty({n}): n elements that nothing has written yet.
empty(n) == [i \in 1..n |-> Uninit]

\* computeLengthsAndCheckAndGetFlat: lengths[i] = tensors[i].numel().
computeLengths(tensors) == [i \in 1..Len(tensors) |-> Len(tensors[i])]

\* split_with_sizes(sizes, 0): where slice i starts (elements before it) ...
SliceStart(sizes, i) == SumSeq(SubSeq(sizes, 1, i - 1))

\* ... and the slices themselves, as views into the flat buffer.
split_with_sizes(flat, sizes) ==
  [i \in 1..Len(sizes) |-> SubSeq(flat, SliceStart(sizes, i) + 1, SliceStart(sizes, i) + sizes[i])]

\* flatSplits[i].copy_(src): the flat buffer with its slice i overwritten.
copy_slice(flat, sizes, i, src) ==
  [k \in 1..Len(flat) |->
     IF k > SliceStart(sizes, i) /\ k <= SliceStart(sizes, i) + sizes[i]
       THEN src[k - SliceStart(sizes, i)]
       ELSE flat[k]]

\* A variant of alltoall_flatten whose loop stops one buffer early.
RECURSIVE alltoall_flatten_short(_, _, _, _)
alltoall_flatten_short(inputs, sendCounts, i, flatInput) ==
  IF i > GrpSize - 1 THEN flatInput
  ELSE alltoall_flatten_short(inputs, sendCounts, i + 1,
                              copy_slice(flatInput, sendCounts, i, inputs[i]))

\* alltoall_: for (i < grp_size) flatInputSplits[i].copy_(inputs[i].view({-1})).
RECURSIVE alltoall_flatten(_, _, _, _)
alltoall_flatten(inputs, sendCounts, i, flatInput) ==
  IF i > GrpSize THEN flatInput
  ELSE alltoall_flatten(inputs, sendCounts, i + 1,
                        copy_slice(flatInput, sendCounts, i, inputs[i]))

\* alltoall_, gather_: for (i < grp_size) outputs[i].view({-1}).copy_(flatOutputSplits[i]).
unflatten(flatOutput, recvCounts) ==
  [i \in 1..GrpSize |-> split_with_sizes(flatOutput, recvCounts)[i]]

\* A variant of gather_sendCounts that puts the count at the caller's own index.
gather_sendCounts_own(inputLen, rootRank, rk) ==
  [i \in 1..GrpSize |-> IF i = rk + 1 THEN inputLen ELSE 0]

\* gather_: sendCounts(grp_size, 0); sendCounts[opts.rootRank] = input.numel().
gather_sendCounts(inputLen, rootRank, rk) ==
  [i \in 1..GrpSize |-> IF i = rootRank + 1 THEN inputLen ELSE 0]

\* gather_: recvCounts(grp_size, 0), filled with the lengths of the output
\* buffers at the root only.
gather_recvCounts(outputs, rootRank, rk) ==
  IF rk = rootRank THEN computeLengths(outputs) ELSE [i \in 1..GrpSize |-> 0]

\* ccl::alltoallv as rank d sees it once every rank has called it: from each
\* rank s, in rank order, the recvCounts[d][s] elements that s sends to d.
alltoallv(sendBufs, sendCounts, recvCounts, d) ==
  LET from(s) == SubSeq(sendBufs[s], SliceStart(sendCounts[s], d) + 1,
                        SliceStart(sendCounts[s], d) + recvCounts[d][s])
      RECURSIVE upto(_)
      upto(s) == IF s = 0 THEN <<>> ELSE upto(s - 1) \o from(s)
  IN upto(GrpSize)

\* ------------------------------------------------------------------- Init
InitCommon ==
  /\ pc = [t \in Threads |-> "idle"]
  /\ req = [t \in Threads |-> NoReq]
  /\ seen = [t \in Threads |-> 0]
  /\ did = [t \in Threads |-> {}]
  /\ comms = [t \in Threads |-> 0]
  /\ work = [t \in Threads |-> 0]
  /\ result = [t \in Threads |-> NoResult]
  /\ cache = [k \in Keys |-> 0]
  /\ bundles = <<>>
  /\ globalMutex = 0
  /\ works = <<>>
  /\ queue = [d \in Devices |-> <<>>]
  /\ ncalls = 0
  /\ steps = [t \in Threads |-> <<>>]

\* No helper is applied on its own.
NoArg == [kind |-> "none"]
NoOut == [kind |-> "none"]

\* Threads race on the process of rank 0.
Init == mode = "mt" /\ rank = 0 /\ InitCommon /\ arg = NoArg /\ out = NoOut

\* One thread makes single calls on a process of any rank.
InitBase == mode = "base" /\ rank \in Ranks /\ InitCommon /\ arg = NoArg /\ out = NoOut

\* ----------------------------------------------------------- entry points
\* The start of an entry point: its own checks, then on to collective<>().
Begin(t, r) ==
  LET e == EntryCheck(r, rank) IN
  /\ pc[t] = "idle"
  /\ Active(t)
  /\ ncalls < CallLimit
  /\ ncalls' = ncalls + 1
  /\ did' = [did EXCEPT ![t] = {}]
  /\ IF e = Ok
       THEN /\ pc' = [pc EXCEPT ![t] = "get_ccl_comms"]
            /\ req' = [req EXCEPT ![t] = r]
            /\ seen' = [seen EXCEPT ![t] = get_comms(cache, get_key_from_devs(r.devs))]
            /\ result' = [result EXCEPT ![t] = NoResult]
       ELSE /\ result' = [result EXCEPT ![t] = Threw(e)]
            /\ UNCHANGED <<pc, req, seen>>
  /\ UNCHANGED <<steps, arg, out, mode, rank, comms, work, cache, bundles, globalMutex, works, queue>>

allreduce_(t) == \E r \in RequestsOf("allreduce") : Begin(t, r)
reduce_(t) == \E r \in RequestsOf("reduce") : Begin(t, r)
broadcast_(t) == \E r \in RequestsOf("broadcast") : Begin(t, r)
allgather_(t) == \E r \in RequestsOf("allgather") : Begin(t, r)
gather_(t) == \E r \in RequestsOf("gather") : Begin(t, r)
alltoall_(t) == \E r \in RequestsOf("alltoall") : Begin(t, r)
alltoall_base_(t) == \E r \in RequestsOf("alltoall_base") : Begin(t, r)

\* An exception leaves get_ccl_comms and the entry point: the call is over
\* and no work is returned.
Throw(t, e) ==
  /\ pc' = [pc EXCEPT ![t] = "idle"]
  /\ result' = [result EXCEPT ![t] = Threw(e)]
  /\ req' = [req EXCEPT ![t] = NoReq]
  /\ seen' = [seen EXCEPT ![t] = 0]
  /\ comms' = [comms EXCEPT ![t] = 0]

\* ---------------------------------------------------------- get_ccl_comms
\* Sanity checks, then the cache lookup: a hit returns the cached bundle.
get_ccl_comms_lookup(t) ==
  LET r == req[t]
      key == get_key_from_devs(r.devs)
      e == get_ccl_comms_sanity(key, r.devs)
  IN
  /\ pc[t] = "get_ccl_comms"
  /\ IF e # Ok
       THEN Throw(t, e) /\ UNCHANGED did
       ELSE /\ IF get_ccl_comms_hit(cache, key)
                 THEN /\ comms' = [comms EXCEPT ![t] = get_comms(cache, key)]
                      /\ pc' = [pc EXCEPT ![t] = "collective"]
                      /\ seen' = [seen EXCEPT ![t] = 0]
                      /\ did' = [did EXCEPT ![t] = @ \cup {"lookup"}]
                 ELSE /\ pc' = [pc EXCEPT ![t] = "create"]
                      /\ did' = [did EXCEPT ![t] = @ \cup {"lookup"}]
                      /\ UNCHANGED <<comms, seen>>
            /\ UNCHANGED <<result, req>>
  /\ UNCHANGED <<steps, arg, out, mode, rank, work, cache, bundles, globalMutex, works, queue, ncalls>>

\* A miss: the stream, the rendezvous handle (get_kvs) and the communicator
\* are created; the library may reject the configuration.
get_ccl_comms_create(t) ==
  LET r == req[t]
      key == get_key_from_devs(r.devs)
  IN
  /\ pc[t] = "create"
  /\ did' = [did EXCEPT ![t] = @ \cup {"stream", "kvs", "create"}]
  /\ \E ok \in BOOLEAN :
       IF ok
         THEN /\ bundles' = Append(bundles, Comms(key, r.devs))
              /\ comms' = [comms EXCEPT ![t] = Len(bundles) + 1]
              /\ pc' = [pc EXCEPT ![t] = "add_comms"]
              /\ UNCHANGED <<result, req, seen>>
         ELSE /\ Throw(t, ErrCreate)
              /\ UNCHANGED bundles
  /\ UNCHANGED <<steps, arg, out, mode, rank, work, cache, globalMutex, works, queue, ncalls>>

\* The new bundle is stored and a reference to it returned.
get_ccl_comms_add(t) ==
  /\ pc[t] = "add_comms"
  /\ cache' = add_comms(cache, get_key_from_devs(req[t].devs), comms[t])
  /\ pc' = [pc EXCEPT ![t] = "collective"]
  /\ seen' = [seen EXCEPT ![t] = 0]
  /\ UNCHANGED <<steps, arg, out, mode, rank, req, did, comms, work, result, bundles, globalMutex,
                 works, queue, ncalls>>

\* ------------------------------------------------ collective<>() and execute
\* execute() is over: the entry point returns the work, or the exception that
\* escaped execute leaves the entry point.
Leave(t, thrown) ==
  /\ pc' = [pc EXCEPT ![t] = "idle"]
  /\ result' = [result EXCEPT ![t] = IF thrown = Ok THEN Returned ELSE Threw(thrown)]
  /\ req' = [req EXCEPT ![t] = NoReq]
  /\ comms' = [comms EXCEPT ![t] = 0]
  /\ work' = [work EXCEPT ![t] = 0]
  /\ steps' = [steps EXCEPT ![t] = <<>>]

\* collective<>() wraps the lambda, the bundle and the buffers into a new
\* work; the entry point hands it to execute(), which calls run(): the lambda
\* first makes its own checks, and an exception ends run() before the library
\* is called.  All of this is local to the calling thread.
collective(t) ==
  LET w == Len(works) + 1
      e == LambdaCheck(req[t], rank)
      ran == execute_run(Append(works, NewWork(comms[t])), w)
      x == execute(ran, w, e)
  IN
  /\ pc[t] = "collective"
  /\ did' = [did EXCEPT ![t] = {}]
  /\ IF e # Ok
       THEN /\ works' = x.works
            /\ Leave(t, x.thrown)
       ELSE /\ works' = ran
            /\ work' = [work EXCEPT ![t] = w]
            /\ pc' = [pc EXCEPT ![t] = "lock"]
            /\ steps' = [steps EXCEPT ![t] = flatten_in(req[t])]
            /\ UNCHANGED <<result, req, comms>>
  /\ UNCHANGED <<arg, out, mode, rank, seen, cache, bundles, globalMutex, queue, ncalls>>

\* call_with_lock(globalMutex, ...): the mutex is taken.
call_with_lock(t) ==
  /\ pc[t] = "lock"
  /\ globalMutex = 0
  /\ globalMutex' = t
  /\ pc' = [pc EXCEPT ![t] = "ccl"]
  /\ UNCHANGED <<steps, arg, out, mode, rank, req, seen, did, comms, work, result, cache, bundles,
                 works, queue, ncalls>>

\* A variant of ccl_call that calls the library primitive without the mutex.
ccl_call_unlocked(t) ==
  LET w == work[t]
      r == req[t]
      d == DeviceOf(works[w])
  IN
  /\ pc[t] \in {"lock", "ccl"}
  /\ globalMutex' = IF globalMutex = t THEN 0 ELSE globalMutex
  /\ \E ok \in BOOLEAN :
       IF ok
         THEN LET sent == [works EXCEPT ![w].lib = "ok", ![w].evt = "pending"]
                  op == [work |-> w, args |-> LibArgs(r, rank, bundles[comms[t]].size)]
                  x == execute(sent, w, Ok)
              IN /\ queue' = [queue EXCEPT ![d] = Append(@, op)]
                 /\ IF NeedsCopyOut(r, rank)
                      THEN /\ works' = sent
                           /\ pc' = [pc EXCEPT ![t] = "event_wait"]
                           /\ steps' = [steps EXCEPT ![t] = Append(@, "alltoallv")]
                           /\ UNCHANGED <<result, req, comms, work>>
                      ELSE /\ works' = x.works
                           /\ Leave(t, x.thrown)
         ELSE LET x == execute([works EXCEPT ![w].lib = "error"], w, ErrLibrary)
              IN /\ works' = x.works
                 /\ Leave(t, x.thrown)
                 /\ UNCHANGED queue
  /\ UNCHANGED <<arg, out, mode, rank, seen, did, cache, bundles, ncalls>>

\* A variant of ccl_call that drops the cached bundle when the library call fails.
ccl_call_evict(t) ==
  LET w == work[t]
      r == req[t]
      d == DeviceOf(works[w])
  IN
  /\ pc[t] = "ccl"
  /\ globalMutex = t
  /\ globalMutex' = 0
  /\ \E ok \in BOOLEAN :
       IF ok
         THEN LET sent == [works EXCEPT ![w].lib = "ok", ![w].evt = "pending"]
                  op == [work |-> w, args |-> LibArgs(r, rank, bundles[comms[t]].size)]
                  x == execute(sent, w, Ok)
              IN /\ queue' = [queue EXCEPT ![d] = Append(@, op)]
                 /\ IF NeedsCopyOut(r, rank)
                      THEN /\ works' = sent
                           /\ pc' = [pc EXCEPT ![t] = "event_wait"]
                           /\ steps' = [steps EXCEPT ![t] = Append(@, "alltoallv")]
                           /\ UNCHANGED <<result, req, comms, work>>
                      ELSE /\ works' = x.works
                           /\ Leave(t, x.thrown)
                 /\ UNCHANGED cache
         ELSE LET x == execute([works EXCEPT ![w].lib = "error"], w, ErrLibrary)
              IN /\ works' = x.works
                 /\ Leave(t, x.thrown)
                 /\ cache' = [cache EXCEPT ![get_key_from_devs(r.devs)] = 0]
                 /\ UNCHANGED queue
  /\ UNCHANGED <<arg, out, mode, rank, seen, did, bundles, ncalls>>

\* A variant of ccl_call that releases the mutex only when the library call succeeds.
ccl_call_keep_lock(t) ==
  LET w == work[t]
      r == req[t]
      d == DeviceOf(works[w])
  IN
  /\ pc[t] = "ccl"
  /\ globalMutex = t
  /\ \E ok \in BOOLEAN :
       IF ok
         THEN LET sent == [works EXCEPT ![w].lib = "ok", ![w].evt = "pending"]
                  op == [work |-> w, args |-> LibArgs(r, rank, bundles[comms[t]].size)]
                  x == execute(sent, w, Ok)
              IN /\ queue' = [queue EXCEPT ![d] = Append(@, op)]
                 /\ globalMutex' = 0
                 /\ IF NeedsCopyOut(r, rank)
                      THEN /\ works' = sent
                           /\ pc' = [pc EXCEPT ![t] = "event_wait"]
                           /\ steps' = [steps EXCEPT ![t] = Append(@, "alltoallv")]
                           /\ UNCHANGED <<result, req, comms, work>>
                      ELSE /\ works' = x.works
                           /\ Leave(t, x.thrown)
         ELSE LET x == execute([works EXCEPT ![w].lib = "error"], w, ErrLibrary)
              IN /\ works' = x.works
                 /\ Leave(t, x.thrown)
                 /\ UNCHANGED queue
                 /\ UNCHANGED globalMutex
  /\ UNCHANGED <<arg, out, mode, rank, seen, did, cache, bundles, ncalls>>

\* The library primitive, called with the mutex held: it enqueues the
\* operation and returns its event, or fails (CCL_CHECK throws).  The mutex is
\* released either way.  Unless the lambda goes on to copy the output back,
\* run() returns and execute finishes the work.
ccl_call(t) ==
  LET w == work[t]
      r == req[t]
      d == DeviceOf(works[w])
  IN
  /\ pc[t] = "ccl"
  /\ globalMutex = t
  /\ globalMutex' = 0
  /\ \E ok \in BOOLEAN :
       IF ok
         THEN LET sent == [works EXCEPT ![w].lib = "ok", ![w].evt = "pending"]
                  op == [work |-> w, args |-> LibArgs(r, rank, bundles[comms[t]].size)]
                  x == execute(sent, w, Ok)
              IN /\ queue' = [queue EXCEPT ![d] = Append(@, op)]
                 /\ IF NeedsCopyOut(r, rank)
                      THEN /\ works' = sent
                           /\ pc' = [pc EXCEPT ![t] = "event_wait"]
                           /\ steps' = [steps EXCEPT ![t] = Append(@, "alltoallv")]
                           /\ UNCHANGED <<result, req, comms, work>>
                      ELSE /\ works' = x.works
                           /\ Leave(t, x.thrown)
         ELSE LET x == execute([works EXCEPT ![w].lib = "error"], w, ErrLibrary)
              IN /\ works' = x.works
                 /\ Leave(t, x.thrown)
                 /\ UNCHANGED queue
  /\ UNCHANGED <<arg, out, mode, rank, seen, did, cache, bundles, ncalls>>

\* A variant of ret_evt_wait that goes on without waiting for the event.
ret_evt_wait_skip(t) ==
  /\ pc[t] = "event_wait"
  /\ pc' = [pc EXCEPT ![t] = "copy_out"]
  /\ steps' = [steps EXCEPT ![t] = Append(@, "wait")]
  /\ UNCHANGED <<arg, out, mode, rank, req, seen, did, comms, work, result, cache, bundles,
                 globalMutex, works, queue, ncalls>>

\* gather_ at the root and alltoall_ with output buffers that are not flat:
\* ret_evt.wait() inside the lambda returns once the device has completed the
\* operation.
ret_evt_wait(t) ==
  /\ pc[t] = "event_wait"
  /\ works[work[t]].evt = "done"
  /\ pc' = [pc EXCEPT ![t] = "copy_out"]
  /\ steps' = [steps EXCEPT ![t] = Append(@, "wait")]
  /\ UNCHANGED <<arg, out, mode, rank, req, seen, did, comms, work, result, cache, bundles,
                 globalMutex, works, queue, ncalls>>

\* Then the flat output is split and copied back into the output buffers;
\* run() returns and execute finishes the work.
copy_out(t) ==
  LET w == work[t]
      x == execute(works, w, Ok)
  IN
  /\ pc[t] = "copy_out"
  /\ works' = x.works
  /\ Leave(t, x.thrown)
  /\ UNCHANGED <<arg, out, mode, rank, seen, did, cache, bundles, globalMutex, queue, ncalls>>

\* ------------------------------------------------------------------ device
\* The device completes the oldest operation enqueued on its queue.
device_complete(d) ==
  /\ queue[d] # <<>>
  /\ works' = [works EXCEPT ![Head(queue[d]).work].evt = "done"]
  /\ queue' = [queue EXCEPT ![d] = Tail(@)]
  /\ UNCHANGED <<steps, arg, out, mode, rank, pc, req, seen, did, comms, work, result, cache,
                 bundles, globalMutex, ncalls>>

\* -------------------------------------------------------- XPUWorkCCL::wait
\* A caller calls wait(timeout) on a work an entry point returned.
wait_call(t) ==
  /\ pc[t] = "idle"
  /\ Active(t)
  /\ \E w \in 1..Len(works) :
       /\ Handed(w)
       /\ work' = [work EXCEPT ![t] = w]
  /\ pc' = [pc EXCEPT ![t] = "wait"]
  /\ result' = [result EXCEPT ![t] = NoResult]
  /\ did' = [did EXCEPT ![t] = {}]
  /\ UNCHANGED <<steps, arg, out, mode, rank, req, seen, comms, cache, bundles, globalMutex,
                 works, queue, ncalls>>

\* synchronizeInternal has seen the event complete; checkAndThrowException
\* rethrows a captured exception, otherwise wait returns true.
wait_return(t) ==
  LET w == work[t]
      e == checkAndThrowException(works[w])
  IN
  /\ pc[t] = "wait"
  /\ synchronizeInternal(works[w])
  /\ pc' = [pc EXCEPT ![t] = "idle"]
  /\ result' = [result EXCEPT ![t] = IF e = Ok THEN WaitTrue ELSE WaitThrew(e)]
  /\ work' = [work EXCEPT ![t] = 0]
  /\ UNCHANGED <<steps, arg, out, mode, rank, req, seen, did, comms, cache, bundles,
                 globalMutex, works, queue, ncalls>>

\* A variant of wait_timeout that cancels the operation it gave up on.
wait_timeout_cancel(t) ==
  LET w == work[t]
      d == DeviceOf(works[w])
  IN
  /\ pc[t] = "wait"
  /\ ~synchronizeInternal(works[w])
  /\ pc' = [pc EXCEPT ![t] = "idle"]
  /\ result' = [result EXCEPT ![t] = WaitThrew(ErrTimeout)]
  /\ work' = [work EXCEPT ![t] = 0]
  /\ works' = [works EXCEPT ![w].evt = "none"]
  /\ queue' = [queue EXCEPT ![d] = SelectSeq(@, LAMBDA o : o.work # w)]
  /\ UNCHANGED <<steps, arg, out, mode, rank, req, seen, did, comms, cache, bundles,
                 globalMutex, ncalls>>

\* The timeout elapses while the event is still pending: wait fails; the
\* device operation stays where it is.
wait_timeout(t) ==
  LET w == work[t] IN
  /\ pc[t] = "wait"
  /\ ~synchronizeInternal(works[w])
  /\ pc' = [pc EXCEPT ![t] = "idle"]
  /\ result' = [result EXCEPT ![t] = WaitThrew(ErrTimeout)]
  /\ work' = [work EXCEPT ![t] = 0]
  /\ UNCHANGED <<steps, arg, out, mode, rank, req, seen, did, comms, cache, bundles,
                 globalMutex, works, queue, ncalls>>

\* ------------------------------------------------------------------- Next
Next ==
  \/ \E t \in Threads : allreduce_(t)
  \/ \E t \in Threads : reduce_(t)
  \/ \E t \in Threads : broadcast_(t)
  \/ \E t \in Threads : allgather_(t)
  \/ \E t \in Threads : gather_(t)
  \/ \E t \in Threads : alltoall_(t)
  \/ \E t \in Threads : alltoall_base_(t)
  \/ \E t \in Threads : get_ccl_comms_lookup(t)
  \/ \E t \in Threads : get_ccl_comms_create(t)
  \/ \E t \in Threads : get_ccl_comms_add(t)
  \/ \E t \in Threads : collective(t)
  \/ \E t \in Threads : call_with_lock(t)
  \/ \E t \in Threads : ccl_call(t)
  \/ \E t \in Threads : ret_evt_wait(t)
  \/ \E t \in Threads : copy_out(t)
  \/ \E d \in Devices : device_complete(d)
  \/ \E t \in Threads : wait_call(t)
  \/ \E t \in Threads : wait_return(t)
  \/ \E t \in Threads : wait_timeout(t)

Spec == Init /\ [][Next]_vars

SpecBase == InitBase /\ [][Next]_vars

\* A thread blocked on the free mutex gets it, and a library call returns or
\* throws; nothing else is assumed of the scheduling.
Fairness ==
  \A t \in Threads : WF_vars(call_with_lock(t)) /\ WF_vars(ccl_call(t))

SpecFair == Init /\ [][Next]_vars /\ Fairness

\* ----------------------------------------------- helpers applied on their own
\* The state outside arg and out, which no helper touches.
program == <<mode, rank, pc, req, seen, did, comms, work, result, cache, bundles,
             globalMutex, works, queue, ncalls, steps>>

\* Tensor lists for check_tensors_properties: buffers that differ from a plain
\* one in at most one property, on either device.
Buffers ==
  UNION {{b, [b EXCEPT !.devtype = "cpu"], [b EXCEPT !.dtype = "i32"],
          [b EXCEPT !.sizes = <<3>>], [b EXCEPT !.sparse = TRUE],
          [b EXCEPT !.contig = FALSE]} : b \in {BaseBuffer(d) : d \in Devices}}

TensorLists == UNION {[1..n -> Buffers] : n \in 0..MaxList}

TensorsArgs == {[kind |-> "tensors", ts |-> ts] : ts \in TensorLists}

\* Buffer lists of alltoall_: one buffer per rank, of any lengths.
Contents == UNION {[1..n -> Values] : n \in 0..MaxBuf}

BuffersArgs == {[kind |-> "buffers", bufs |-> b] : b \in [1..GrpSize -> Contents]}

\* gather_ called by every rank of the group with the same root: what each
\* rank contributes, and whether the root's output buffers are already flat.
GatherArgs ==
  {[kind |-> "gather", rootRank |-> r, inputs |-> c, flat |-> f] :
     r \in Ranks, c \in [1..GrpSize -> Contents], f \in BOOLEAN}

\* The request of rank rk in such a call: the root passes one list of
\* buffers sized to the contributions, the others pass no output.
GatherRequestOf(a, rk) ==
  Request("gather", <<0>>,
          [inp |-> Tensor(Len(a.inputs[rk + 1]), 1, "f32"),
           rootRank |-> a.rootRank,
           outs |-> IF rk = a.rootRank
                      THEN <<[i \in 1..GrpSize |-> Tensor(Len(a.inputs[i]), 1, "f32")]>>
                      ELSE <<>>,
           flat |-> a.flat])

\* One side of an alltoall_base with split sizes: a tensor and its split list,
\* every pair that passes checkSplitSizes and the failing ones of Splits.
SplitLists == {<<>>} \cup [1..GrpSize -> 0..MaxSplit]

SplitTensors == {Tensor(d, r, "f32") : d \in 0..MaxDim0, r \in 1..MaxRow}

SplitSides ==
  {x \in [t : SplitTensors, split : SplitLists] : checkSplitSizes(x.split, x.t, GrpSize) = Ok}
  \cup {[t |-> Tensor(GrpSize, 1, "f32"), split |-> sp] : sp \in Splits}

\* The split path is taken when at least one split list is given.
SplitArgs ==
  {[kind |-> "splits", inp |-> i.t, inSplit |-> i.split, out |-> o.t, outSplit |-> o.split] :
     i \in SplitSides, o \in SplitSides}
  \ {a \in [kind : {"splits"}, inp : SplitTensors, inSplit : {<<>>},
              out : SplitTensors, outSplit : {<<>>}] : TRUE}

PureArgs == TensorsArgs \cup BuffersArgs \cup GatherArgs \cup SplitArgs

InitPure == mode = "pure" /\ rank = 0 /\ InitCommon /\ arg \in PureArgs /\ out = NoOut

\* check_tensors_properties is applied to a tensor list.
apply_check_tensors_properties ==
  /\ arg.kind = "tensors"
  /\ out = NoOut
  /\ out' = [kind |-> "verdict", value |-> check_tensors_properties(arg.ts)]
  /\ UNCHANGED <<arg, program>>

\* The buffers of alltoall_ are copied into a new flat buffer, and the flat
\* buffer is split and copied back by the same lengths.
apply_flatten_unflatten ==
  LET counts == computeLengths(arg.bufs)
      flat == alltoall_flatten(arg.bufs, counts, 1, empty(SumSeq(counts)))
  IN
  /\ arg.kind = "buffers"
  /\ out = NoOut
  /\ out' = [kind |-> "buffers", flat |-> flat, back |-> unflatten(flat, counts)]
  /\ UNCHANGED <<arg, program>>

\* Every rank runs gather_: its checks, its counts, the library's alltoallv,
\* and at the root the split of the flat output into the output buffers.
apply_gather ==
  LET a == arg
      grp == 1..GrpSize
      err == [i \in grp |->
                IF gather_check(GatherRequestOf(a, i - 1), i - 1) # Ok
                  THEN gather_check(GatherRequestOf(a, i - 1), i - 1)
                  ELSE gather_lambda_check(GatherRequestOf(a, i - 1), i - 1)]
      send == [i \in grp |-> gather_sendCounts(Len(a.inputs[i]), a.rootRank, i - 1)]
      recv == [i \in grp |-> gather_recvCounts(a.inputs, a.rootRank, i - 1)]
      flatOutput == alltoallv(a.inputs, send, recv, a.rootRank + 1)
  IN
  /\ arg.kind = "gather"
  /\ out = NoOut
  /\ out' = [kind |-> "gather", err |-> err, send |-> send, recv |-> recv,
             outputs |-> unflatten(flatOutput, recv[a.rootRank + 1])]
  /\ UNCHANGED <<arg, program>>

\* The lambda of the split path of alltoall_base_ up to its library call: the
\* two split checks, then the counts it hands to ccl::alltoallv.
apply_alltoall_base_counts ==
  LET r == Request("alltoall_base", <<0>>,
                   [inp |-> arg.inp, out |-> arg.out,
                    inSplit |-> arg.inSplit, outSplit |-> arg.outSplit])
      e == alltoall_base_lambda_check(r)
  IN
  /\ arg.kind = "splits"
  /\ out = NoOut
  /\ out' = [kind |-> "counts", err |-> e,
             send |-> IF e = Ok THEN LibArgs(r, rank, GrpSize).send ELSE <<>>,
             recv |-> IF e = Ok THEN LibArgs(r, rank, GrpSize).recv ELSE <<>>]
  /\ UNCHANGED <<arg, program>>

NextPure ==
  \/ apply_check_tensors_properties
  \/ apply_flatten_unflatten
  \/ apply_gather
  \/ apply_alltoall_base_counts

SpecPure == InitPure /\ [][NextPure]_vars

\* ==================================================================== claims
InGetComms == {"get_ccl_comms", "create", "add_comms"}
HasComms == {"collective", "lock", "ccl", "event_wait", "copy_out"}
WorkIds == 1..Len(works)
Constructions(k) == {b \in 1..Len(bundles) : bundles[b].key = k}

\* C1: for a fixed key, concurrent calls of get_ccl_comms perform exactly one
\* communicator construction and all return the same bundle (the cached one);
\* two distinct keys never map to the same bundle.
C1_OneConstructionPerKey ==
  /\ \A k \in Keys : Cardinality(Constructions(k)) <= 1
  /\ \A t \in Threads :
       pc[t] \in HasComms => comms[t] = cache[get_key_from_devs(req[t].devs)]
  /\ \A k1, k2 \in Keys : cache[k1] # 0 /\ cache[k1] = cache[k2] => k1 = k2

C3_GetCommsFailures ==
  [][\A t \in Threads :
       /\ pc[t] = "get_ccl_comms" /\ pc'[t] # pc[t] /\ Len(req[t].devs) # 1
            => /\ pc'[t] = "idle"
               /\ result'[t] = Threw(IF req[t].devs = <<>> THEN ErrEmptyDevices ELSE ErrOneDevice)
               /\ did'[t] = {}
               /\ cache' = cache
               /\ bundles' = bundles
       /\ pc[t] = "create" /\ pc'[t] # pc[t] /\ bundles' = bundles
            => /\ pc'[t] = "idle"
               /\ result'[t] = Threw(ErrCreate)
               /\ cache' = cache
       /\ pc[t] \in InGetComms /\ pc'[t] = "idle" => cache' = cache]_vars

\* get_ccl_comms has refused a list of two devices and the cache is empty.
C3_Witness ==
  \E t \in Threads :
    /\ result[t] = Threw(ErrOneDevice)
    /\ \A k \in Keys : cache[k] = 0

\* C4: a work goes from Running to Completed or to Failed only: execute makes
\* exactly one of the two finishing transitions, and a Completed or Failed
\* work keeps its state and its cause whatever happens later.
C4_WorkStateMachine ==
  [][\A w \in 1..Len(works') :
       /\ works'[w].fin <= 1
       /\ works'[w].state = "Running" <=> works'[w].fin = 0
       /\ works'[w].state = "Failed" <=> works'[w].cause # "none"
       /\ w <= Len(works) /\ works[w].state # "Running"
            => works'[w].state = works[w].state /\ works'[w].cause = works[w].cause]_vars

\* A work has failed, a wait on it has raised its error, and another
\* collective has been issued after it.
C4_Witness ==
  \E w \in WorkIds :
    /\ works[w].state = "Failed"
    /\ w < Len(works)
    /\ works[Len(works)].state = "Completed"
    /\ \E t \in Threads : result[t] = WaitThrew(works[w].cause)

\* C5: an exception raised while run() performs the dispatch (a check of the
\* lambda or a failure of the library call) leaves the work Failed with that
\* exception as its cause, and the entry point returns the work to its caller
\* instead of throwing.
C5_RunErrorsCaptured ==
  [][\A t \in Threads :
       /\ pc[t] = "collective" /\ pc'[t] # pc[t] /\ LambdaCheck(req[t], rank) # Ok
            => /\ works'[Len(works')].state = "Failed"
               /\ works'[Len(works')].cause = LambdaCheck(req[t], rank)
               /\ works'[Len(works')].runs = 1
               /\ pc'[t] = "idle"
               /\ result'[t] = Returned
       /\ pc[t] = "ccl" /\ pc'[t] # pc[t] /\ works'[work[t]].lib = "error"
            => /\ works'[work[t]].state = "Failed"
               /\ works'[work[t]].cause = ErrLibrary
               /\ pc'[t] = "idle"
               /\ result'[t] = Returned]_vars

\* The library call of a collective has failed: the work is Failed with the
\* library's error and its entry point has returned it.
C5_Witness ==
  \E t \in Threads :
    /\ result[t] = Returned
    /\ \E w \in WorkIds :
         works[w].state = "Failed" /\ works[w].cause = ErrLibrary /\ works[w].lib = "error"

\* C6: every wait() on a Completed work returns true without blocking, and
\* every wait() on a Failed work raises the captured error, on each call.
C6_WaitOnTerminalWork ==
  [][\A t \in Threads :
       /\ pc'[t] = "wait" /\ works'[work'[t]].state = "Completed"
            => synchronizeInternal(works'[work'[t]])
       /\ pc[t] = "wait" /\ pc'[t] # pc[t] /\ works[work[t]].state = "Completed"
            => result'[t] = WaitTrue
       /\ pc[t] = "wait" /\ pc'[t] # pc[t] /\ works[work[t]].state = "Failed"
            => result'[t] = WaitThrew(works[work[t]].cause)]_vars

\* The operations enqueued on the devices are exactly the pending ones.
Enqueued(ws, q) ==
  \A w \in 1..Len(ws) :
    Cardinality({<<d, i>> \in Devices \X (1..Len(ws)) :
                   i <= Len(q[d]) /\ q[d][i].work = w})
      = IF ws[w].evt = "pending" THEN 1 ELSE 0

\* C7: a wait whose timeout elapses before the device event completes fails
\* with a timeout error and leaves the device operation alone: it stays
\* enqueued, and can complete afterwards.
C7_TimeoutDoesNotCancel ==
  [][/\ \A t \in Threads :
          pc[t] = "wait" /\ pc'[t] # pc[t] /\ works[work[t]].evt = "pending"
            => /\ result'[t] = WaitThrew(ErrTimeout)
               /\ queue' = queue
               /\ works' = works
     /\ Enqueued(works', queue')]_vars

\* A wait on the only work has timed out and the work's event has completed
\* since.
C7_Witness ==
  \E t \in Threads :
    /\ result[t] = WaitThrew(ErrTimeout)
    /\ Len(works) = 1
    /\ works[1].evt = "done"

\* C8: input-shape and configuration errors (bad split sizes of
\* alltoall_base, a count mismatch of allgather or gather) are thrown by the
\* entry point and never captured in the work it returns.
C8_ConfigErrorsSynchronous ==
  \A w \in WorkIds : works[w].cause \notin ConfigErrors

\* The work an entry point is about to return when thread t leaves it.
EndedWork(t) == IF pc[t] = "collective" THEN Len(works) + 1 ELSE work[t]

\* C9: an invocation of an entry point either returns a work on which run()
\* has been executed exactly once, or throws without any library collective
\* having been issued for it.
C9_ReturnsRunWorkOrThrows ==
  [][/\ \A w \in 1..Len(works') : works'[w].runs = 1
     /\ \A t \in Threads :
          /\ pc[t] \in InGetComms \cup HasComms /\ pc'[t] = "idle"
               => \/ /\ result'[t] = Returned
                     /\ pc[t] \in HasComms
                     /\ works'[EndedWork(t)].runs = 1
                     /\ works'[EndedWork(t)].state # "Running"
                  \/ /\ result'[t].kind = "threw"
                     /\ pc[t] \in InGetComms
                     /\ works' = works
                     /\ queue' = queue
          /\ pc[t] = "idle" /\ pc'[t] = "idle" /\ result'[t] # result[t]
               => /\ result'[t].kind = "threw"
                  /\ works' = works
                  /\ queue' = queue]_vars

\* A first invocation has returned its work, run once, and a second one has
\* thrown in get_ccl_comms.
C9_Witness ==
  /\ result[1] = Threw(ErrOneDevice)
  /\ Len(works) = 1
  /\ works[1].runs = 1
  /\ works[1].lib = "ok"

\* The uniform requests of alltoall_base whose tensors agree in count and type.
UniformRequests ==
  {r \in RequestsOf("alltoall_base") :
     IsUniform(r) /\ numel(r.a.out) = numel(r.a.inp) /\ r.a.out.dtype = r.a.inp.dtype}

\* The operation a library call of thread t has just enqueued.
JustEnqueued(t) == queue'[req[t].devs[1]][Len(queue'[req[t].devs[1]])]

\* The library call of a uniform alltoall_base is ccl::alltoall with a count
\* of N / P.
UniformCount(t) ==
  pc[t] = "ccl" /\ pc'[t] # pc[t] /\ req[t] \in UniformRequests /\ queue' # queue
    => /\ JustEnqueued(t).args.prim = "alltoall"
       /\ JustEnqueued(t).args.count * GrpSize = numel(req[t].a.out)

\* C10: in the uniform path of alltoall_base, an element count N that the
\* group size P divides is dispatched with a count of N / P, and an N that P
\* does not divide fails before the library call.
C10_UniformByElementCount ==
  [][\A t \in Threads :
       /\ \A r \in UniformRequests :
            Begin(t, r) =>
              IF numel(r.a.out) % GrpSize = 0
                THEN pc'[t] = "get_ccl_comms"
                ELSE result'[t] = Threw(ErrBaseDivide) /\ pc'[t] = "idle"
       /\ UniformCount(t)]_vars

\* C10 as amended: the first dimension decides.  A uniform alltoall_base
\* whose dim 0 the group size divides is dispatched with a count of N / P;
\* one whose dim 0 it does not divide (every N that P does not divide among
\* them) fails in the entry point, before any work or library call.
C10_UniformByDim0 ==
  [][\A t \in Threads :
       /\ \A r \in UniformRequests :
            Begin(t, r) =>
              IF r.a.out.dim0 % GrpSize = 0
                THEN pc'[t] = "get_ccl_comms" /\ req'[t] = r
                ELSE /\ result'[t] = Threw(ErrBaseDivide)
                     /\ pc'[t] = "idle"
                     /\ works' = works
                     /\ queue' = queue
       /\ pc[t] # "idle" /\ req[t] \in UniformRequests
            => req[t].a.out.dim0 % GrpSize = 0
       /\ UniformCount(t)]_vars

\* A uniform alltoall_base of N > P elements is enqueued with a count of N / P.
C10_Witness ==
  \E d \in Devices :
    /\ queue[d] # <<>>
    /\ Head(queue[d]).args.prim = "alltoall"
    /\ Head(queue[d]).args.count = MaxRow
    /\ Head(queue[d]).args.count > 1

\* A split list that is given and does not describe the tensor's dim 0: it has
\* not one entry per rank, or its entries do not sum to dim 0.
BadSplit(split, t) ==
  split # <<>> /\ (Len(split) # GrpSize \/ SumSeq(split) # t.dim0)

\* C11: in the split path of alltoall_base, input or output split sizes that
\* have the wrong length or do not sum to the tensor's dim 0 make the
\* operation fail with a configuration error, and no library call is made.
C11_BadSplitsFail ==
  [][/\ \A t \in Threads :
          (/\ pc[t] = "collective" /\ pc'[t] # pc[t]
           /\ req[t].op = "alltoall_base" /\ ~IsUniform(req[t])
           /\ BadSplit(req[t].a.inSplit, req[t].a.inp) \/ BadSplit(req[t].a.outSplit, req[t].a.out))
            => /\ works'[Len(works')].state = "Failed"
               /\ works'[Len(works')].cause \in {ErrSplitDivide, ErrSplitCount, ErrSplitSum}
               /\ works'[Len(works')].lib = "none"
               /\ pc'[t] = "idle"
               /\ queue' = queue
               /\ globalMutex' = globalMutex
     /\ \A w \in 1..Len(works') :
          works'[w].cause \in {ErrSplitDivide, ErrSplitCount, ErrSplitSum}
            => works'[w].lib = "none" /\ works'[w].evt = "none"]_vars

\* An alltoall_base whose input splits are fine and whose output split list
\* is one entry short has failed without a library call.
C11_Witness ==
  \E w \in WorkIds :
    /\ works[w].state = "Failed"
    /\ works[w].cause = ErrSplitCount
    /\ works[w].lib = "none"
    /\ \A d \in Devices : queue[d] = <<>>

\* The conditions of check_tensors_properties that a tensor list violates.
Violations(ts) ==
  {v \in {ErrNonEmpty, ErrTooMany, ErrDense, ErrType, ErrSize, ErrContiguous,
          ErrDeviceType, ErrDistinct} :
     \/ v = ErrNonEmpty /\ Len(ts) = 0
     \/ v = ErrTooMany /\ Len(ts) > device_count
     \/ v = ErrDense /\ \E i \in 1..Len(ts) : ts[i].sparse
     \/ v = ErrType /\ \E i \in 1..Len(ts) : ts[i].dtype # ts[1].dtype
     \/ v = ErrSize /\ \E i \in 1..Len(ts) : ts[i].sizes # ts[1].sizes
     \/ v = ErrContiguous /\ \E i \in 1..Len(ts) : ~ts[i].contig
     \/ v = ErrDeviceType /\ \E i \in 1..Len(ts) : ts[i].devtype # ts[1].devtype
     \/ v = ErrDistinct /\ \E i, j \in 1..Len(ts) : i < j /\ ts[i].dev = ts[j].dev}

\* C12: check_tensors_properties accepts a tensor list exactly when it
\* violates none of its conditions (and then returns the first tensor's
\* device type); a list that violates one condition only is rejected with
\* that condition's error, any rejection names a condition the list does
\* violate, and nothing but the outcome changes.
C12_ValidatorAcceptsExactly ==
  [][arg.kind = "tensors" /\ out' # out
       => /\ (out'.value \in {"xpu", "cpu"}) <=> (Violations(arg.ts) = {})
          /\ Violations(arg.ts) = {} => out'.value = arg.ts[1].devtype
          /\ Violations(arg.ts) # {} => out'.value \in Violations(arg.ts)
          /\ UNCHANGED <<arg, program>>]_vars

\* Two plain buffers on the same device have been rejected as not distinct.
C12_Witness ==
  /\ arg.kind = "tensors"
  /\ Len(arg.ts) = 2
  /\ Violations(arg.ts) = {ErrDistinct}
  /\ out.kind = "verdict"
  /\ out.value = ErrDistinct

\* Where a thread is once get_ccl_comms has gone past its cache lookup:
\* constructing a communicator, or on its way to the library call.
PastLookup ==
  {"create", "add_comms", "collective", "lock", "ccl", "event_wait", "copy_out"}

\* C13: allreduce, reduce and broadcast validate their tensor list first: a
\* list that violates a condition of the validator never leads to a
\* communicator construction or to a library call.
C13_ValidatedBeforeCommunicator ==
  \A t \in Threads :
    req[t].op \in {"allreduce", "reduce", "broadcast"} /\ pc[t] \in PastLookup
      => Violations(BufsOf(req[t])) = {}

\* The threads inside a library primitive.
InLibrary(p) == {t \in Threads : p[t] = "ccl"}

\* C14: at most one thread at a time is inside a library collective
\* primitive, and every call of one is made by a thread that holds the
\* global mutex.
C14_LibraryCallsExclusive ==
  [][/\ Cardinality(InLibrary(pc')) <= 1
     /\ \A t \in InLibrary(pc') : globalMutex' = t
     /\ \A w \in 1..Len(works) :
          works'[w].lib # works[w].lib
            => \E t \in InLibrary(pc) : work[t] = w /\ globalMutex = t]_vars

\* One thread is inside the library primitive while the other has reached
\* its own library call and waits for the mutex.
C14_Witness ==
  \E t, u \in Threads :
    /\ pc[t] = "ccl"
    /\ globalMutex = t
    /\ pc[u] = "lock"

\* All buffers of a list one after the other, first buffer first.
RECURSIVE Concat(_)
Concat(bufs) == IF bufs = <<>> THEN <<>> ELSE Head(bufs) \o Concat(Tail(bufs))

\* C15: in alltoall, copying each buffer into its slice of the flat buffer
\* and then splitting the flat buffer by the same lengths and copying slice i
\* back into buffer i gives every buffer its original contents; the flat
\* buffer holds the buffers in rank order.
C15_FlattenRoundTrip ==
  [][arg.kind = "buffers" /\ out' # out
       => /\ out'.back = arg.bufs
          /\ out'.flat = Concat(arg.bufs)]_vars

\* Buffers of different lengths, the first one empty, have made the round trip.
C15_Witness ==
  /\ arg.kind = "buffers"
  /\ out.kind = "buffers"
  /\ arg.bufs[1] = <<>>
  /\ Len(arg.bufs[GrpSize]) = MaxBuf
  /\ out.back = arg.bufs

\* C16: when every rank calls gather with the same root, the root's output
\* buffer i holds rank i's contribution, every rank's send counts are zero
\* except at the root's index, every other rank's receive counts are all
\* zero, and no rank gets an error (the others pass no output buffers).
C16_GatherToRoot ==
  [][arg.kind = "gather" /\ out' # out
       => /\ out'.outputs = arg.inputs
          /\ \A i, j \in 1..GrpSize :
               /\ out'.send[i][j] = IF j = arg.rootRank + 1 THEN Len(arg.inputs[i]) ELSE 0
               /\ i # arg.rootRank + 1 => out'.recv[i][j] = 0
               /\ out'.err[i] = Ok]_vars

\* The last rank is the root and has gathered contributions of different
\* lengths, its own the longest.
C16_Witness ==
  /\ arg.kind = "gather"
  /\ out.kind = "gather"
  /\ arg.rootRank = GrpSize - 1
  /\ Len(arg.inputs[1]) = 1
  /\ Len(arg.inputs[GrpSize]) = MaxBuf
  /\ out.outputs = arg.inputs

\* The key of the bundle a work uses.
KeyOf(ws, bs, w) == bs[ws[w].comms].key

\* C17: no collective changes the cache: whatever happens to a work (created,
\* Completed, Failed, its event completed), the cache and the bundles stay as
\* they are, the key of every work keeps its entry, and a call that finds the
\* entry holds exactly that bundle when it goes on to dispatch.
C17_CollectivesLeaveCache ==
  [][/\ works' # works => cache' = cache /\ bundles' = bundles
     /\ \A w \in 1..Len(works') : cache'[KeyOf(works', bundles', w)] # 0
     /\ \A t \in Threads :
          pc'[t] = "collective" /\ did'[t] = {"lookup"}
            => comms'[t] = cache'[get_key_from_devs(req'[t].devs)]]_vars

\* A work has Failed, and a later work on the same, still cached bundle has
\* been handed to the library.
C17_Witness ==
  \E w1, w2 \in WorkIds :
    /\ w1 < w2
    /\ works[w1].state = "Failed"
    /\ works[w2].comms = works[w1].comms
    /\ works[w2].lib = "ok"
    /\ cache[KeyOf(works, bundles, w1)] = works[w2].comms

\* C18: while a collective is issued its thread is blocked only around the
\* global mutex: no entry point waits for the device to complete the
\* operation before it returns the work.
C18_NoWaitForDevice ==
  \A t \in Threads :
    pc[t] = "event_wait" => works[work[t]].evt = "done"

\* The allreduce operations enqueued on a device and not yet complete.
AllreducePending ==
  {o \in UNION {{queue[d][i] : i \in 1..Len(queue[d])} : d \in Devices} :
     o.args.prim = "allreduce"}

\* C19: an allreduce work reaches Completed, never Failed, and its output
\* buffer then holds the sum: a Completed allreduce is one the device has
\* completed.
C19_AllreduceCompletedHoldsSum ==
  \A o \in AllreducePending : works[o.work].state # "Completed"

\* C20: the global mutex is released on every way out of a library call,
\* also when the call fails: the mutex is held only by a thread inside the
\* library call, and a thread that has reached its library call and waits
\* for the mutex gets it.
C20_LockReleased ==
  /\ [][/\ \A t \in Threads : pc[t] = "ccl" /\ pc'[t] # "ccl" => globalMutex' = 0
        /\ globalMutex' # 0 => pc'[globalMutex'] = "ccl"]_vars
  /\ \A t \in Threads : (pc[t] = "lock") ~> (pc[t] = "ccl")

\* After a library call has failed, a thread has taken the mutex again and is
\* inside its own library call.
C20_Witness ==
  \E t \in Threads :
    /\ pc[t] = "ccl"
    /\ globalMutex = t
    /\ \E w \in WorkIds : works[w].lib = "error" /\ works[w].state = "Failed"

\* C21: on the path through flat buffers (alltoall_, gather_ at the root) the
\* steps are ordered: buffers that are not flat have been copied into the flat
\* send buffer when the library call is issued; the copy of the flat receive
\* buffer back into the output buffers starts only once the event of the call
\* has been waited on and is complete; and with an output that was already
\* flat the lambda returns right after the library call, with no wait and no
\* copy back.
C21_FlatPathOrdered ==
  [][\A t \in Threads :
       /\ pc[t] = "ccl" /\ pc'[t] # "ccl" /\ NeedsFlatten(req[t])
            => steps[t] = <<"flatten">>
       /\ pc'[t] = "copy_out" /\ pc[t] # "copy_out"
            => /\ pc[t] = "event_wait"
               /\ works[work[t]].lib = "ok"
               /\ works[work[t]].evt = "done"
               /\ steps'[t][Len(steps'[t])] = "wait"
               /\ steps'[t][Len(steps'[t]) - 1] = "alltoallv"
       /\ pc'[t] \in {"event_wait", "copy_out"}
            => req'[t].op \in {"gather", "alltoall"} /\ NeedsCopyOut(req'[t], rank)
       /\ pc[t] = "ccl" /\ pc'[t] # "ccl" /\ ~NeedsCopyOut(req[t], rank)
            => pc'[t] = "idle" /\ steps'[t] = <<>>]_vars

\* An alltoall_ whose buffers are not flat has flattened its input, called the
\* library and waited for the event, and is about to copy the output back.
C21_Witness ==
  \E t \in Threads :
    /\ pc[t] = "copy_out"
    /\ req[t].op = "alltoall"
    /\ steps[t] = <<"flatten", "alltoallv", "wait">>
    /\ works[work[t]].evt = "done"

\* A split list passes the split-size check for a tensor: it is empty and the
\* group size divides dim 0, or it has one entry per rank and sums to dim 0.
PassesSplitCheck(split, t) ==
  IF split = <<>> THEN t.dim0 % GrpSize = 0
  ELSE Len(split) = GrpSize /\ SumSeq(split) = t.dim0

\* The count of rank i (from 1) for one side of the exchange.
SplitCount(split, t, i) ==
  IF split = <<>> THEN numel(t) \div GrpSize ELSE split[i] * t.row

\* C22: in the split path of alltoall_base, for an input and an output that
\* pass the split-size check, there is one send and one receive count per
\* rank, the send counts sum to the input's element count and the receive
\* counts to the output's, and the count of rank i is splitSize[i] times the
\* elements of a dim-0 row when split sizes are given and elementCount /
\* groupSize (exactly) when they are not.
C22_SplitCountsCoverTensor ==
  [][arg.kind = "splits" /\ out' # out
       /\ PassesSplitCheck(arg.inSplit, arg.inp) /\ PassesSplitCheck(arg.outSplit, arg.out)
       => /\ out'.err = Ok
          /\ Len(out'.send) = GrpSize
          /\ Len(out'.recv) = GrpSize
          /\ SumSeq(out'.send) = numel(arg.inp)
          /\ SumSeq(out'.recv) = numel(arg.out)
          /\ \A i \in 1..GrpSize :
               /\ out'.send[i] = SplitCount(arg.inSplit, arg.inp, i)
               /\ out'.recv[i] = SplitCount(arg.outSplit, arg.out, i)
               /\ arg.inSplit = <<>> => out'.send[i] * GrpSize = numel(arg.inp)
               /\ arg.outSplit = <<>> => out'.recv[i] * GrpSize = numel(arg.out)]_vars

\* Uneven input split sizes on rows of several elements, no output split
\* sizes: the counts have been computed and the first send count spans
\* several rows.
C22_Witness ==
  /\ arg.kind = "splits"
  /\ out.kind = "counts"
  /\ out.err = Ok
  /\ arg.outSplit = <<>>
  /\ arg.inp.row = MaxRow
  /\ arg.inSplit # <<>>
  /\ arg.inSplit[1] > arg.inSplit[GrpSize]
  /\ arg.inSplit[GrpSize] > 0
  /\ out.send[1] = arg.inSplit[1] * MaxRow
  /\ SumSeq(out.send) = numel(arg.inp)

\* C23: the work an entry point returns is Running, and a work leaves Running
\* for Completed or Failed only in a step of a thread that waits on it (or
\* polls it): issuing the collective never ends the work.
C23_TerminalOnlyByWait ==
  [][/\ \A t \in Threads :
          pc[t] \in HasComms /\ pc'[t] = "idle" /\ result'[t] = Returned
            => works'[EndedWork(t)].state = "Running"
     /\ \A w \in 1..Len(works) :
          works[w].state = "Running" /\ works'[w].state # "Running"
            => \E t \in Threads : pc[t] = "wait" /\ work[t] = w]_vars

\* The error gather owes a caller of rank rk for the shape of its output
\* list, Ok when the shape is right.
GatherShapeError(r, rk) ==
  CASE rk # r.a.rootRank /\ Len(r.a.outs) # 0 -> ErrGatherNonRoot
    [] rk = r.a.rootRank /\ Len(r.a.outs) # 1 -> ErrGatherMulti
    [] rk = r.a.rootRank /\ Len(r.a.outs) = 1 /\ Len(r.a.outs[1]) # GrpSize -> ErrGatherWorld
    [] OTHER -> Ok

\* C24: gather checks the shape of its output list in the entry point: a
\* non-root rank with output lists, a root with a number of output lists
\* other than one, and a root whose one output list has not GrpSize buffers
\* each throw there, before the cache is looked up and before a work exists,
\* with no cache entry, bundle, work or library call made; any other shape
\* goes on to get_ccl_comms.
C24_GatherShapeChecked ==
  [][\A t \in Threads : \A r \in RequestsOf("gather") :
       Begin(t, r) =>
         IF GatherShapeError(r, rank) # Ok
           THEN /\ pc'[t] = "idle"
                /\ result'[t] = Threw(GatherShapeError(r, rank))
                /\ did'[t] = {}
                /\ cache' = cache
                /\ bundles' = bundles
                /\ works' = works
                /\ queue' = queue
                /\ globalMutex' = globalMutex
           ELSE pc'[t] = "get_ccl_comms" /\ req'[t] = r]_vars

\* The root has been refused an output list that is one buffer short, as the
\* first call of the process: nothing is cached and no work exists.
C24_Witness ==
  /\ result[1] = Threw(ErrGatherWorld)
  /\ pc[1] = "idle"
  /\ ncalls = 1
  /\ works = <<>>
  /\ bundles = <<>>
  /\ \A k \in Keys : cache[k] = 0

\* C25: a communicator constructed on a cache miss is for one device and
\* registers the rank of its process among GrpSize ranks; over the processes
\* of the group the registered ranks are pairwise distinct and are exactly
\* 0..GrpSize-1.
C25_RegisteredRanks ==
  /\ \A b \in 1..Len(bundles) :
       /\ Len(bundles[b].key) = 1
       /\ bundles[b].rank = rank
       /\ bundles[b].size = GrpSize
       /\ bundles[b].rank \in 0..(bundles[b].size - 1)
  /\ \A d \in Devices :
       /\ \A r1, r2 \in Ranks :
            local_base_rank(r1, <<d>>) = local_base_rank(r2, <<d>>) => r1 = r2
       /\ {local_base_rank(r, <<d>>) : r \in Ranks} = 0..(GrpSize - 1)
       /\ total_rank_size(<<d>>) = GrpSize

\* The process of the last rank has missed the cache, constructed its
\* communicator and stored it.
C25_Witness ==
  /\ rank = GrpSize - 1
  /\ Len(bundles) = 1
  /\ bundles[1].rank = GrpSize - 1
  /\ bundles[1].size = GrpSize
  /\ cache[bundles[1].key] = 1

\* C26: the root that reduce and broadcast hand to the library is rootRank
\* times the number of buffers of the call plus rootTensor; with one buffer
\* and rootTensor 0 it is rootRank itself, whatever the rank of the calling
\* process, and then a rank of the communicator whenever rootRank is a rank
\* of the group.
C26_RootHandedToLibrary ==
  [][\A t \in Threads :
       (/\ pc[t] = "ccl" /\ pc'[t] # pc[t] /\ works'[work[t]].lib = "ok"
        /\ req[t].op \in {"reduce", "broadcast"})
         => /\ JustEnqueued(t).args.prim = req[t].op
            /\ JustEnqueued(t).args.root
                 = req[t].a.rootRank * Len(req[t].devs) + req[t].a.rootTensor
            /\ Len(req[t].devs) = 1 /\ req[t].a.rootTensor = 0
                 => /\ JustEnqueued(t).args.root = req[t].a.rootRank
                    /\ req[t].a.rootRank \in Ranks
                         => JustEnqueued(t).args.root \in 0..(bundles[comms[t]].size - 1)]_vars

\* The process of the last rank has handed a reduce to the library with rank
\* 0 as its root.
C26_Witness ==
  /\ rank = GrpSize - 1
  /\ rank # 0
  /\ \E d \in Devices :
       /\ queue[d] # <<>>
       /\ Head(queue[d]).args.prim = "reduce"
       /\ Head(queue[d]).args.root = 0
====
